---- MODULE Spec2Model ----
(***************************************************************************)
(* Model of openapi_sqlalchemy/__init__.py: the construction entry point   *)
(* init_model_factory, the file based entry points init_yaml and           *)
(* init_json, and the callable they return, functools.lru_cache(maxsize=None) wrapped around  *)
(* functools.partial(model_factory, schemas=schemas, base=base).           *)
(*                                                                         *)
(* Python dicts are functions whose DOMAIN is the set of keys.  A call of  *)
(* the returned factory is split at the points where another thread can    *)
(* run: the call starts, the cache is looked up, the wrapped function is   *)
(* invoked, the result is stored.                                          *)
(***************************************************************************)
EXTENDS Integers, Sequences, FiniteSets, TLC

\* Bound on the number of factory calls started in one behaviour.
MaxCalls == 4

\* Slots for the factories made by the entry points; Spec, SeqSpec and
\* FormSpec make the factory of slot f1, TwoSpec both.
Factories == {"f1", "f2"}
Threads == {"t1", "t2"}
Names == {"table 1", "table 2"}

EmptyDict == [k \in {} |-> k]

(***************************************************************************)
(* Inputs: specification documents, bases.                                 *)
(***************************************************************************)
SchemasChoices == {[n \in S |-> "object"] : S \in {{}, {"table 1"}, Names}}

ComponentsChoices ==
    {EmptyDict, [securitySchemes |-> EmptyDict]}
        \cup {[schemas |-> s] : s \in SchemasChoices}

\* The third document has `schemas` at the top level and no `components`.
Specs ==
    {EmptyDict, [info |-> "3.0"], [schemas |-> [n \in Names |-> "object"]]}
        \cup {[components |-> c] : c \in ComponentsChoices}

None == [kind |-> "None", id |-> 0]
UserBase == [kind |-> "user", id |-> 0]
NoValue == [kind |-> "absent", id |-> 0]
ArgBases == {None, UserBase}

\* declarative_base(): a new base class, distinct from every earlier one.
declarative_base(created) == [kind |-> "declarative_base", id |-> created + 1]

(***************************************************************************)
(* Errors.                                                                 *)
(***************************************************************************)
NoError == [type |-> "", msg |-> ""]

MalformedSpecificationError(msg) ==
    [type |-> "MalformedSpecificationError", msg |-> msg]

MissingComponentsMsg == "\"components\" is a required key in the specification."

MissingSchemasMsg ==
    "\"schemas\" is a required key in the components of the specification."

\* (the message's backquotes around the pip command are left out of the string)
YamlImportError ==
    [type |-> "ImportError",
     msg |-> "Using init_yaml requires the pyyaml package. Try pip install pyyaml."]

UnboundLocalError(var) == [type |-> "UnboundLocalError", msg |-> var]

NameError(var) == [type |-> "NameError", msg |-> var]

\* The error of the model-building collaborator for a name it cannot build.
CollaboratorError(name) == [type |-> "CollaboratorError", msg |-> name]

(***************************************************************************)
(* init_model_factory: validation and binding.  The result is either the   *)
(* raised error or the binding (base, schemas) of the returned callable.   *)
(***************************************************************************)
NoBinding == [base |-> NoValue, schemas |-> EmptyDict]

\* The two lookups with their defaults and no check: nothing is raised.
init_model_factory_unchecked(base, spec) ==
    LET components == IF "components" \in DOMAIN spec THEN spec["components"]
                      ELSE EmptyDict
        schemas == IF "schemas" \in DOMAIN components THEN components["schemas"]
                   ELSE EmptyDict
    IN [status |-> "returned", error |-> NoError,
        bound |-> [base |-> base, schemas |-> schemas]]

\* The check of `schemas` made first, on spec.get("components", {}).
init_model_factory_schemas_first(base, spec) ==
    LET components == IF "components" \in DOMAIN spec THEN spec["components"]
                      ELSE EmptyDict
    IN IF "schemas" \notin DOMAIN components
       THEN [status |-> "raised",
             error |-> MalformedSpecificationError(MissingSchemasMsg),
             bound |-> NoBinding]
       ELSE [status |-> "returned", error |-> NoError,
             bound |-> [base |-> base, schemas |-> components["schemas"]]]

\* The partial bound to None in place of the base argument.
init_model_factory_binds_none(base, spec) ==
    IF "components" \notin DOMAIN spec
    THEN [status |-> "raised",
          error |-> MalformedSpecificationError(MissingComponentsMsg),
          bound |-> NoBinding]
    ELSE LET components == spec["components"] IN
         IF "schemas" \notin DOMAIN components
         THEN [status |-> "raised",
               error |-> MalformedSpecificationError(MissingSchemasMsg),
               bound |-> NoBinding]
         ELSE [status |-> "returned",
               error |-> NoError,
               bound |-> [base |-> None, schemas |-> components["schemas"]]]

init_model_factory(base, spec) ==
    IF "components" \notin DOMAIN spec
    THEN [status |-> "raised",
          error |-> MalformedSpecificationError(MissingComponentsMsg),
          bound |-> NoBinding]
    ELSE LET components == spec["components"] IN
         IF "schemas" \notin DOMAIN components
         THEN [status |-> "raised",
               error |-> MalformedSpecificationError(MissingSchemasMsg),
               bound |-> NoBinding]
         ELSE [status |-> "returned",
               error |-> NoError,
               bound |-> [base |-> base, schemas |-> components["schemas"]]]

(***************************************************************************)
(* init_yaml: the outcome and the effects it had, in program order.  spec  *)
(* is the document the file holds; `loaded` is what yaml.load made of it,  *)
(* nothing when the file was never read.  `Base` is assigned only when     *)
(* base is None; with a base supplied the read of `Base` in the call of    *)
(* init_model_factory raises.                                              *)
(***************************************************************************)
\* The default base made before the import of yaml is tried.
init_yaml_base_first(base, spec, yamlInstalled, created) ==
    IF ~yamlInstalled
    THEN [status |-> "raised", error |-> YamlImportError, bound |-> NoBinding,
          retBase |-> NoValue, loaded |-> EmptyDict,
          effects |-> IF base = None THEN <<"declarative_base", "import yaml">>
                      ELSE <<"import yaml">>]
    ELSE IF base = None
    THEN LET Base == declarative_base(created)
             r == init_model_factory(Base, spec)
         IN [status |-> r.status, error |-> r.error, bound |-> r.bound,
             retBase |-> IF r.status = "returned" THEN Base ELSE NoValue,
             loaded |-> spec,
             effects |-> <<"declarative_base", "import yaml", "open",
                           "yaml.load", "init_model_factory">>]
    ELSE [status |-> "raised", error |-> UnboundLocalError("Base"),
          bound |-> NoBinding, retBase |-> NoValue, loaded |-> spec,
          effects |-> <<"import yaml", "open", "yaml.load">>]

init_yaml(base, spec, yamlInstalled, created) ==
    IF ~yamlInstalled
    THEN [status |-> "raised", error |-> YamlImportError, bound |-> NoBinding,
          retBase |-> NoValue, loaded |-> EmptyDict,
          effects |-> <<"import yaml">>]
    ELSE IF base = None
    THEN LET Base == declarative_base(created)
             r == init_model_factory(Base, spec)
         IN [status |-> r.status, error |-> r.error, bound |-> r.bound,
             retBase |-> IF r.status = "returned" THEN Base ELSE NoValue,
             loaded |-> spec,
             effects |-> <<"import yaml", "declarative_base", "open",
                           "yaml.load", "init_model_factory">>]
    ELSE [status |-> "raised", error |-> UnboundLocalError("Base"),
          bound |-> NoBinding, retBase |-> NoValue, loaded |-> spec,
          effects |-> <<"import yaml", "open", "yaml.load">>]

(***************************************************************************)
(* init_json: `Base` is assigned only when base is None, the file is       *)
(* opened, and the arguments of json.load are evaluated: the module has no *)
(* global `Loader`, so its read raises before json.load is called.         *)
(***************************************************************************)
init_json(base, spec, created) ==
    [status |-> "raised", error |-> NameError("Loader"), bound |-> NoBinding,
     retBase |-> NoValue, loaded |-> EmptyDict,
     effects |-> IF base = None
                 THEN <<"import json", "declarative_base", "open">>
                 ELSE <<"import json", "open">>]

(***************************************************************************)
(* The collaborator model_factory(name=, schemas=, base=): builds a new    *)
(* class for a name of schemas, raises for any other name.  `serial` is    *)
(* the number of earlier invocations, so every class built is a new        *)
(* object.                                                                 *)
(***************************************************************************)
NoClass == [class |-> 0]

model_factory(name, schemas, base, serial) ==
    IF name \in DOMAIN schemas
    THEN [status |-> "returned", class |-> [class |-> serial + 1], error |-> NoError]
    ELSE [status |-> "raised", class |-> NoClass, error |-> CollaboratorError(name)]

(***************************************************************************)
(* functools.lru_cache(maxsize=None): key construction and the dict.       *)
(***************************************************************************)
kwd_mark == "<kwd_mark>"

RECURSIVE FlattenItems(_)
FlattenItems(kwds) ==
    IF kwds = <<>> THEN <<>>
    ELSE <<Head(kwds)[1], Head(kwds)[2]>> \o FlattenItems(Tail(kwds))

\* A key that leaves the keyword arguments out.
make_key_ignores_kwds(args, kwds) == args

make_key(args, kwds) ==
    IF kwds = <<>> THEN args ELSE args \o <<kwd_mark>> \o FlattenItems(kwds)

\* factory(name=n)
KeywordCallKey(n) == make_key(<<>>, <<<<"name", n>>>>)

\* factory(n).  (_make_key returns the bare string for a single str argument;
\* the one element tuple kept here differs from every keyword key alike.)
PositionalCallKey(n) == make_key(<<n>>, <<>>)

\* A store that is lost.
DictSetNoStore(d, k, v) == d

\* A store that evicts every other entry (a cache of size one).
DictSetEvicting(d, k, v) == [j \in {k} |-> v]

DictSet(d, k, v) == [j \in DOMAIN d \cup {k} |-> IF j = k THEN v ELSE d[j]]

VARIABLES
    factory,       \* per factory slot: the entry point call that made it and its outcome
    basesCreated,  \* number of declarative_base() calls so far
    cache,         \* per factory: the dict of its lru_cache wrapper
    pc,            \* per thread: position inside the wrapper
    frame,         \* per thread: locals of the call in progress
    outcome,       \* how the factory call that finished last ended
    invoked,       \* the calls received by the collaborator, in order
    returned,      \* the (factory, name, class) triples factory calls have returned
    started        \* per factory and name: number of calls started

vars == <<factory, basesCreated, cache, pc, frame, outcome, invoked, returned, started>>

NoFactory ==
    [entry |-> "none", argBase |-> NoValue, argSpec |-> EmptyDict, yaml |-> FALSE,
     file |-> EmptyDict, status |-> "none", error |-> NoError, bound |-> NoBinding,
     retBase |-> NoValue, effects |-> <<>>]

NoFrame ==
    [f |-> "", name |-> "", key |-> <<>>, result |-> NoClass, builds |-> 0,
     seen |-> {}, snap |-> EmptyDict, mark |-> 0]

NoOutcome ==
    [t |-> "", f |-> "", name |-> "", status |-> "none", class |-> NoClass, error |-> NoError,
     builds |-> 0, seen |-> {}, snap |-> EmptyDict, post |-> EmptyDict]

Init ==
    /\ factory = [f \in Factories |-> NoFactory]
    /\ basesCreated = 0
    /\ cache = [f \in Factories |-> EmptyDict]
    /\ pc = [t \in Threads |-> "idle"]
    /\ frame = [t \in Threads |-> NoFrame]
    /\ outcome = NoOutcome
    /\ invoked = <<>>
    /\ returned = {}
    /\ started = [f \in Factories |-> [n \in Names |-> 0]]

callVars == <<cache, pc, frame, outcome, invoked, returned, started>>

(***************************************************************************)
(* Entry points.  Slot f receives the result of one entry point call; for  *)
(* the file based entry points `file` is the document the file holds.      *)
(***************************************************************************)
Vacant(f) == factory[f].status = "none"

\* A construction that builds the class of every schema at once.
InitModelFactoryEager(f, base, spec) ==
    /\ Vacant(f)
    /\ LET r == init_model_factory(base, spec) IN
       /\ factory' = [factory EXCEPT ![f] =
              [entry |-> "init_model_factory", argBase |-> base, argSpec |-> spec,
               yaml |-> FALSE, file |-> EmptyDict, status |-> r.status, error |-> r.error,
               bound |-> r.bound, retBase |-> NoValue,
               effects |-> <<"init_model_factory">>]]
       /\ cache' = [cache EXCEPT ![f] =
              [k \in {KeywordCallKey(n) : n \in DOMAIN r.bound.schemas} |->
                  [class |-> 1]]]
    /\ UNCHANGED <<basesCreated, pc, frame, outcome, invoked, returned, started>>

InitModelFactory(f, base, spec) ==
    /\ Vacant(f)
    /\ LET r == init_model_factory(base, spec) IN
       factory' = [factory EXCEPT ![f] =
           [entry |-> "init_model_factory", argBase |-> base, argSpec |-> spec,
            yaml |-> FALSE, file |-> EmptyDict, status |-> r.status, error |-> r.error,
            bound |-> r.bound, retBase |-> NoValue,
            effects |-> <<"init_model_factory">>]]
    /\ UNCHANGED <<basesCreated, callVars>>

InitYaml(f, base, spec, yamlInstalled) ==
    /\ Vacant(f)
    /\ LET r == init_yaml(base, spec, yamlInstalled, basesCreated) IN
       /\ factory' = [factory EXCEPT ![f] =
              [entry |-> "init_yaml", argBase |-> base, argSpec |-> r.loaded,
               yaml |-> yamlInstalled, file |-> spec, status |-> r.status,
               error |-> r.error, bound |-> r.bound, retBase |-> r.retBase,
               effects |-> r.effects]]
       /\ basesCreated' =
              basesCreated + Cardinality({i \in DOMAIN r.effects :
                                             r.effects[i] = "declarative_base"})
    /\ UNCHANGED callVars

\* init_json(spec_filename, base=base), the file holding the document spec.
InitJson(f, base, spec) ==
    /\ Vacant(f)
    /\ LET r == init_json(base, spec, basesCreated) IN
       /\ factory' = [factory EXCEPT ![f] =
              [entry |-> "init_json", argBase |-> base, argSpec |-> r.loaded,
               yaml |-> FALSE, file |-> spec, status |-> r.status,
               error |-> r.error, bound |-> r.bound, retBase |-> r.retBase,
               effects |-> r.effects]]
       /\ basesCreated' =
              basesCreated + Cardinality({i \in DOMAIN r.effects :
                                             r.effects[i] = "declarative_base"})
    /\ UNCHANGED callVars

(***************************************************************************)
(* A call factory(name=n) of the lru_cache wrapper, by thread t.           *)
(***************************************************************************)
ReturnedFor(f, n) == {r.class : r \in {x \in returned : x.f = f /\ x.name = n}}

RECURSIVE SumOver(_, _)
SumOver(S, g) ==
    IF S = {} THEN 0
    ELSE LET x == CHOOSE y \in S : TRUE IN g[x] + SumOver(S \ {x}, g)

StartedOn(f) == SumOver(Names, started[f])
TotalCalls == SumOver(Factories, [f \in Factories |-> StartedOn(f)])

Call(t, f, n) ==
    /\ pc[t] = "idle"
    /\ factory[f].status = "returned"
    /\ TotalCalls < MaxCalls
    /\ started' = [started EXCEPT ![f][n] = @ + 1]
    /\ pc' = [pc EXCEPT ![t] = "lookup"]
    /\ frame' = [frame EXCEPT ![t] =
           [f |-> f, name |-> n, key |-> KeywordCallKey(n), result |-> NoClass,
            builds |-> 0, seen |-> ReturnedFor(f, n), snap |-> cache[f],
            mark |-> Len(invoked)]]
    /\ UNCHANGED <<factory, basesCreated, cache, outcome, invoked, returned>>

\* factory(n): the name passed positionally, as ModelFactory.__call__ allows.
PositionalCall(t, f, n) ==
    /\ pc[t] = "idle"
    /\ factory[f].status = "returned"
    /\ TotalCalls < MaxCalls
    /\ started' = [started EXCEPT ![f][n] = @ + 1]
    /\ pc' = [pc EXCEPT ![t] = "lookup"]
    /\ frame' = [frame EXCEPT ![t] =
           [f |-> f, name |-> n, key |-> PositionalCallKey(n), result |-> NoClass,
            builds |-> 0, seen |-> ReturnedFor(f, n), snap |-> cache[f],
            mark |-> Len(invoked)]]
    /\ UNCHANGED <<factory, basesCreated, cache, outcome, invoked, returned>>

\* The call of t returns class c: the wrapper's `return result`.
Return(t, c, newCache) ==
    /\ pc' = [pc EXCEPT ![t] = "idle"]
    /\ outcome' =
           [t |-> t, f |-> frame[t].f, name |-> frame[t].name, status |-> "returned",
            class |-> c, error |-> NoError, builds |-> frame[t].builds,
            seen |-> frame[t].seen, snap |-> frame[t].snap, post |-> newCache]
    /\ returned' = returned \cup {[f |-> frame[t].f, name |-> frame[t].name, class |-> c]}
    /\ frame' = [frame EXCEPT ![t] = NoFrame]

\* result = cache_get(key, sentinel); if result is not sentinel: return result
Hit(t) ==
    /\ pc[t] = "lookup"
    /\ frame[t].key \in DOMAIN cache[frame[t].f]
    /\ Return(t, cache[frame[t].f][frame[t].key], cache[frame[t].f])
    /\ UNCHANGED <<factory, basesCreated, cache, invoked, started>>

Miss(t) ==
    /\ pc[t] = "lookup"
    /\ frame[t].key \notin DOMAIN cache[frame[t].f]
    /\ pc' = [pc EXCEPT ![t] = "miss"]
    /\ UNCHANGED <<factory, basesCreated, cache, frame, outcome, invoked, returned, started>>

\* result = user_function(*args, **kwds), the partial over the collaborator.
Collaborate(t) ==
    LET fr == frame[t]
        b == factory[fr.f].bound
    IN model_factory(fr.name, b.schemas, b.base, Len(invoked))

InvokedEntry(t, r) ==
    [f |-> frame[t].f, name |-> frame[t].name,
     base |-> factory[frame[t].f].bound.base,
     schemas |-> factory[frame[t].f].bound.schemas,
     status |-> r.status, class |-> r.class, error |-> r.error]

InvokeReturns(t) ==
    /\ pc[t] = "miss"
    /\ LET r == Collaborate(t) IN
       /\ r.status = "returned"
       /\ invoked' = Append(invoked, InvokedEntry(t, r))
       /\ frame' = [frame EXCEPT ![t].result = r.class, ![t].builds = @ + 1]
    /\ pc' = [pc EXCEPT ![t] = "store"]
    /\ UNCHANGED <<factory, basesCreated, cache, outcome, returned, started>>

\* A wrapper that stores an empty result when the collaborator raises.
InvokeRaisesStoresNone(t) ==
    /\ pc[t] = "miss"
    /\ LET r == Collaborate(t) IN
       /\ r.status = "raised"
       /\ invoked' = Append(invoked, InvokedEntry(t, r))
       /\ cache' = [cache EXCEPT ![frame[t].f] = DictSet(@, frame[t].key, NoClass)]
       /\ outcome' =
              [t |-> t, f |-> frame[t].f, name |-> frame[t].name, status |-> "raised",
               class |-> NoClass, error |-> r.error, builds |-> frame[t].builds + 1,
               seen |-> frame[t].seen, snap |-> frame[t].snap,
               post |-> cache'[frame[t].f]]
    /\ pc' = [pc EXCEPT ![t] = "idle"]
    /\ frame' = [frame EXCEPT ![t] = NoFrame]
    /\ UNCHANGED <<factory, basesCreated, returned, started>>

\* The collaborator's exception leaves the wrapper: nothing is stored.
InvokeRaises(t) ==
    /\ pc[t] = "miss"
    /\ LET r == Collaborate(t) IN
       /\ r.status = "raised"
       /\ invoked' = Append(invoked, InvokedEntry(t, r))
       /\ outcome' =
              [t |-> t, f |-> frame[t].f, name |-> frame[t].name, status |-> "raised",
               class |-> NoClass, error |-> r.error, builds |-> frame[t].builds + 1,
               seen |-> frame[t].seen, snap |-> frame[t].snap,
               post |-> cache[frame[t].f]]
    /\ pc' = [pc EXCEPT ![t] = "idle"]
    /\ frame' = [frame EXCEPT ![t] = NoFrame]
    /\ UNCHANGED <<factory, basesCreated, cache, returned, started>>

\* A store into one cache shared by all factories.
StoreShared(t) ==
    /\ pc[t] = "store"
    /\ LET f == frame[t].f
           newCache == DictSet(cache[f], frame[t].key, frame[t].result)
       IN /\ cache' = [g \in Factories |->
                          DictSet(cache[g], frame[t].key, frame[t].result)]
          /\ Return(t, frame[t].result, newCache)
    /\ UNCHANGED <<factory, basesCreated, invoked, started>>

\* cache[key] = result; return result
Store(t) ==
    /\ pc[t] = "store"
    /\ LET f == frame[t].f
           newCache == DictSet(cache[f], frame[t].key, frame[t].result)
       IN /\ cache' = [cache EXCEPT ![f] = newCache]
          /\ Return(t, frame[t].result, newCache)
    /\ UNCHANGED <<factory, basesCreated, invoked, started>>

\* A call that starts while no other call is in progress.
SeqCall(t, f, n) ==
    /\ \A u \in Threads : pc[u] = "idle"
    /\ Call(t, f, n)

SeqPositionalCall(t, f, n) ==
    /\ \A u \in Threads : pc[u] = "idle"
    /\ PositionalCall(t, f, n)

Construct(f) ==
    \E base \in ArgBases, spec \in Specs :
        \/ InitModelFactory(f, base, spec)
        \/ \E yamlInstalled \in BOOLEAN : InitYaml(f, base, spec, yamlInstalled)
        \/ InitJson(f, base, spec)

Step ==
    \E t \in Threads :
        \/ Hit(t)
        \/ Miss(t)
        \/ InvokeReturns(t)
        \/ InvokeRaises(t)
        \/ Store(t)

\* One factory, called by any thread at any time.
Next ==
    \/ Construct("f1")
    \/ \E t \in Threads, n \in Names : Call(t, "f1", n)
    \/ Step

Spec == Init /\ [][Next]_vars

\* One factory, its calls made one after the other.
NextSeq ==
    \/ Construct("f1")
    \/ \E t \in Threads, n \in Names : SeqCall(t, "f1", n)
    \/ Step

SeqSpec == Init /\ [][NextSeq]_vars

\* Two factories, the second made once the first exists, their calls made
\* one after the other.
NextTwo ==
    \/ Construct("f1")
    \/ factory["f1"].status = "returned" /\ Construct("f2")
    \/ \E t \in Threads, f \in Factories, n \in Names : SeqCall(t, f, n)
    \/ Step

TwoSpec == Init /\ [][NextTwo]_vars

\* One factory, called with the name as keyword or positionally, one call
\* after the other.
NextForms ==
    \/ Construct("f1")
    \/ \E t \in Threads, n \in Names : SeqCall(t, "f1", n)
    \/ \E t \in Threads, n \in Names : SeqPositionalCall(t, "f1", n)
    \/ Step

FormSpec == Init /\ [][NextForms]_vars

(***************************************************************************)
(* Observations used by the properties.                                    *)
(***************************************************************************)
InvokedFor(f, n) == {i \in DOMAIN invoked : invoked[i].f = f /\ invoked[i].name = n}
InvocationsFor(f, n) == Cardinality(InvokedFor(f, n))
InvocationsOn(f) == Cardinality({i \in DOMAIN invoked : invoked[i].f = f})
BuiltFor(f, n) ==
    {invoked[i].class : i \in {j \in InvokedFor(f, n) : invoked[j].status = "returned"}}
Quiet == \A t \in Threads : pc[t] = "idle"
NoRaiseOn(f) ==
    \A i \in DOMAIN invoked : invoked[i].f = f => invoked[i].status = "returned"
NamesCalled(f) == {n \in Names : started[f][n] > 0}
Cached(d, n) == IF KeywordCallKey(n) \in DOMAIN d THEN d[KeywordCallKey(n)] ELSE NoClass

(***************************************************************************)
(* C1: with calls made one after the other, once a call factory(name=n)    *)
(* has returned, the collaborator has been invoked exactly once for n and  *)
(* every call for n returned the one class that invocation built.          *)
(***************************************************************************)
C1_OnceAndIdentical ==
    \A f \in Factories, n \in Names :
        ReturnedFor(f, n) # {} =>
            /\ InvocationsFor(f, n) = 1
            /\ ReturnedFor(f, n) = BuiltFor(f, n)
            /\ Cardinality(ReturnedFor(f, n)) = 1

\* The second call for a name has returned from the cache.
C1_Witness ==
    /\ outcome.status = "returned"
    /\ outcome.builds = 0
    /\ started[outcome.f][outcome.name] >= 2
    /\ InvocationsFor(outcome.f, outcome.name) = 1
    /\ Quiet

(***************************************************************************)
(* C2: with successful calls made one after the other, the number of       *)
(* collaborator invocations equals the number of distinct names called,    *)
(* and no step of a call for one name changes what is cached for another   *)
(* name.                                                                   *)
(***************************************************************************)
C2_Count ==
    \A f \in Factories :
        Quiet /\ NoRaiseOn(f) => InvocationsOn(f) = Cardinality(NamesCalled(f))

C2_Frame ==
    \A t \in Threads :
        pc[t] # "idle" =>
            \A n \in Names \ {frame[t].name} :
                Cached(cache'[frame[t].f], n) = Cached(cache[frame[t].f], n)

C2_Independent == []C2_Count /\ [][C2_Frame]_vars

\* Two different names were called and both calls returned.
C2_Witness ==
    /\ Quiet
    /\ NoRaiseOn("f1")
    /\ Cardinality(NamesCalled("f1")) = 2
    /\ Len(invoked) = 2
    /\ Cardinality(DOMAIN cache["f1"]) = 2

(***************************************************************************)
(* C3 as stated: with calls made one after the other, returning or         *)
(* raising, the collaborator is invoked at most once per distinct name.    *)
(***************************************************************************)
C3_AtMostOncePerName ==
    \A f \in Factories, n \in Names : InvocationsFor(f, n) <= 1

(***************************************************************************)
(* C3 amended: with calls made one after the other, the collaborator is    *)
(* invoked at most once per call, and never again for a name once an       *)
(* invocation for that name has returned a class; a call for a name whose  *)
(* invocation raised invokes it again.                                     *)
(***************************************************************************)
C3_AtMostOncePerBuiltName ==
    \A f \in Factories, n \in Names :
        /\ InvocationsFor(f, n) <= started[f][n]
        /\ \A i \in InvokedFor(f, n), j \in InvokedFor(f, n) :
               i < j => invoked[i].status = "raised"

\* A name whose invocation raises was invoked twice, next to a name that was built.
C3_Witness ==
    \E n \in Names, m \in Names :
        /\ InvocationsFor("f1", n) = 2
        /\ BuiltFor("f1", n) = {}
        /\ BuiltFor("f1", m) # {}
        /\ Quiet

(***************************************************************************)
(* C4: with threads calling at any time, the collaborator builds a class   *)
(* at most once per name and all callers for the name receive the same     *)
(* class.                                                                  *)
(***************************************************************************)
C4_MutualExclusion ==
    \A f \in Factories, n \in Names :
        /\ Cardinality(BuiltFor(f, n)) <= 1
        /\ Cardinality(ReturnedFor(f, n)) <= 1

(***************************************************************************)
(* C5: with threads calling at any time, a call for n that starts after a  *)
(* call for n has returned a class returns that class and does not invoke  *)
(* the collaborator.                                                       *)
(***************************************************************************)
C5_CachedAfterReturn ==
    /\ outcome.status = "returned" => outcome.seen \subseteq {outcome.class}
    /\ outcome.status = "returned" /\ outcome.seen # {} => outcome.builds = 0
    /\ \A t \in Threads : frame[t].seen # {} => pc[t] \notin {"miss", "store"}

(***************************************************************************)
(* Observations on the entry point calls.                                  *)
(***************************************************************************)
HasComponents(spec) == "components" \in DOMAIN spec
HasSchemas(spec) == HasComponents(spec) /\ "schemas" \in DOMAIN spec["components"]
ReachedInitModelFactory(f) ==
    \E i \in DOMAIN factory[f].effects : factory[f].effects[i] = "init_model_factory"

(***************************************************************************)
(* C6: init_model_factory raises MalformedSpecificationError for every     *)
(* specification without `components` and for every specification with    *)
(* `components` but without `schemas` under it; the two messages differ,   *)
(* and a specification lacking both gets the message about `components`.   *)
(***************************************************************************)
C6_StructuralError ==
    /\ MissingComponentsMsg # MissingSchemasMsg
    /\ \A f \in Factories :
          ReachedInitModelFactory(f) =>
              LET spec == factory[f].argSpec
                  e == factory[f].error
              IN /\ ~HasComponents(spec) =>
                        /\ factory[f].status = "raised"
                        /\ e.type = "MalformedSpecificationError"
                        /\ e.msg = MissingComponentsMsg
                 /\ HasComponents(spec) /\ ~HasSchemas(spec) =>
                        /\ factory[f].status = "raised"
                        /\ e.type = "MalformedSpecificationError"
                        /\ e.msg = MissingSchemasMsg

\* init_model_factory was given the empty specification and has raised.
C6_Witness ==
    /\ factory["f1"].entry = "init_model_factory"
    /\ factory["f1"].argSpec = EmptyDict
    /\ factory["f1"].status = "raised"

(***************************************************************************)
(* C7: for a malformed specification init_model_factory raises at          *)
(* construction: no factory is returned, the collaborator is not invoked,  *)
(* and no call of a returned factory ends in the structural error.         *)
(***************************************************************************)
C7_Eager ==
    /\ \A f \in Factories :
          ReachedInitModelFactory(f) /\ ~HasSchemas(factory[f].argSpec) =>
              /\ factory[f].status = "raised"
              /\ factory[f].bound = NoBinding
              /\ StartedOn(f) = 0
              /\ InvocationsOn(f) = 0
              /\ cache[f] = EmptyDict
    /\ outcome.status # "none" =>
          /\ HasSchemas(factory[outcome.f].argSpec)
          /\ outcome.error.type # "MalformedSpecificationError"

\* A specification with `components` but no `schemas` was rejected at construction.
C7_Witness ==
    /\ ReachedInitModelFactory("f1")
    /\ HasComponents(factory["f1"].argSpec)
    /\ ~HasSchemas(factory["f1"].argSpec)
    /\ factory["f1"].status = "raised"
    /\ factory["f1"].error.type = "MalformedSpecificationError"
    /\ invoked = <<>>

(***************************************************************************)
(* C8: for every specification with components.schemas, empty or not,      *)
(* init_model_factory returns a factory bound to that mapping, with an     *)
(* empty cache and no collaborator invocation; a class is built and cached *)
(* for a name only once the factory has been called with it.               *)
(***************************************************************************)
C8_Lazy ==
    \A f \in Factories :
        ReachedInitModelFactory(f) /\ HasSchemas(factory[f].argSpec) =>
            /\ factory[f].status = "returned"
            /\ factory[f].bound.schemas = factory[f].argSpec["components"]["schemas"]
            /\ StartedOn(f) = 0 => cache[f] = EmptyDict /\ InvocationsOn(f) = 0
            /\ \A n \in Names :
                  /\ InvocationsFor(f, n) <= started[f][n]
                  /\ KeywordCallKey(n) \in DOMAIN cache[f] => started[f][n] > 0

\* A factory over two schemas after one call: one class built, the other not.
C8_Witness ==
    /\ factory["f1"].entry = "init_model_factory"
    /\ factory["f1"].status = "returned"
    /\ DOMAIN factory["f1"].bound.schemas = Names
    /\ Quiet
    /\ Cardinality(DOMAIN cache["f1"]) = 1
    /\ Len(invoked) = 1

(***************************************************************************)
(* C9: with calls made one after the other, the step in which the          *)
(* collaborator raises ends the call with the collaborator's error, after  *)
(* exactly one invocation by that call, and leaves the cache as it was     *)
(* when the call started.                                                  *)
(***************************************************************************)
C9_RaiseStep ==
    \A t \in Threads :
        pc[t] = "miss" /\ pc'[t] = "idle" =>
            /\ Len(invoked') = frame[t].mark + 1
            /\ invoked'[Len(invoked')].status = "raised"
            /\ outcome'.t = t
            /\ outcome'.status = "raised"
            /\ outcome'.error = invoked'[Len(invoked')].error
            /\ outcome'.builds = 1
            /\ cache' = cache
            /\ cache'[frame[t].f] = frame[t].snap

C9_Propagates == [][C9_RaiseStep]_vars

\* A call raised while the cache already held a class.
C9_Witness ==
    /\ outcome.status = "raised"
    /\ outcome.error.type = "CollaboratorError"
    /\ outcome.snap # EmptyDict
    /\ outcome.post = outcome.snap

(***************************************************************************)
(* C10: init_yaml, with the YAML parser installed and a file holding a     *)
(* valid specification, returns (base, factory): the supplied base when    *)
(* one is given, a new declarative base otherwise, the factory bound to    *)
(* the returned base.                                                      *)
(***************************************************************************)
C10_InitYamlReturnsPair ==
    \A f \in Factories :
        /\ factory[f].entry = "init_yaml"
        /\ factory[f].yaml
        /\ HasSchemas(factory[f].argSpec)
        => /\ factory[f].status = "returned"
           /\ factory[f].bound.base = factory[f].retBase
           /\ factory[f].argBase # None => factory[f].retBase = factory[f].argBase
           /\ factory[f].argBase = None =>
                  factory[f].retBase.kind = "declarative_base"

(***************************************************************************)
(* C11: init_json, given a file holding a valid specification, reaches     *)
(* init_model_factory and returns (base, factory): the supplied base, or a *)
(* new declarative base when the base given is None, bound into the        *)
(* factory.                                                                *)
(***************************************************************************)
C11_InitJsonReturnsPair ==
    \A f \in Factories :
        factory[f].entry = "init_json" /\ HasSchemas(factory[f].file) =>
            /\ ReachedInitModelFactory(f)
            /\ factory[f].status = "returned"
            /\ factory[f].bound.base = factory[f].retBase
            /\ factory[f].bound.schemas = factory[f].file["components"]["schemas"]
            /\ factory[f].argBase # None => factory[f].retBase = factory[f].argBase
            /\ factory[f].argBase = None =>
                   factory[f].retBase.kind = "declarative_base"

(***************************************************************************)
(* C12: when yaml cannot be imported init_yaml raises the ImportError with *)
(* no other effect: no base is made, no file opened, init_model_factory    *)
(* not called.  No other entry point call and no factory call ends in that *)
(* error.                                                                  *)
(***************************************************************************)
EffectsOf(f) == {factory[f].effects[i] : i \in DOMAIN factory[f].effects}

C12_MissingDependency ==
    /\ \A f \in Factories :
          /\ factory[f].entry = "init_yaml" /\ ~factory[f].yaml =>
                 /\ factory[f].status = "raised"
                 /\ factory[f].error = YamlImportError
                 /\ EffectsOf(f) \cap {"declarative_base", "open", "yaml.load",
                                       "init_model_factory"} = {}
                 /\ factory[f].bound = NoBinding
                 /\ factory[f].retBase = NoValue
          /\ factory[f].error.type = "ImportError" =>
                 factory[f].entry = "init_yaml" /\ ~factory[f].yaml
    /\ basesCreated =
          Cardinality({f \in Factories : "declarative_base" \in EffectsOf(f)})
    /\ outcome.error.type # "ImportError"

\* init_yaml was called without a base while yaml is not installed.
C12_Witness ==
    /\ factory["f1"].entry = "init_yaml"
    /\ ~factory["f1"].yaml
    /\ factory["f1"].argBase = None
    /\ factory["f1"].status = "raised"
    /\ factory["f1"].error.type = "ImportError"
    /\ basesCreated = 0

(***************************************************************************)
(* C13: the cache only grows: in every step each entry of each factory's   *)
(* cache stays, mapped to the same class; no call evicts or replaces an    *)
(* entry.                                                                  *)
(***************************************************************************)
C13_EntriesKept ==
    \A f \in Factories :
        \A k \in DOMAIN cache[f] :
            k \in DOMAIN cache'[f] /\ cache'[f][k] = cache[f][k]

C13_Monotone == [][C13_EntriesKept]_vars

(***************************************************************************)
(* C14: each factory has a cache of its own.  A class cached by a factory  *)
(* was built by an invocation made through that factory, a name not yet    *)
(* called on a factory is absent from its cache whatever the other factory *)
(* holds, and no step of a call on one factory changes the cache of the    *)
(* other.                                                                  *)
(***************************************************************************)
C14_OwnEntries ==
    \A f \in Factories, n \in Names :
        /\ started[f][n] = 0 => KeywordCallKey(n) \notin DOMAIN cache[f]
        /\ KeywordCallKey(n) \in DOMAIN cache[f] =>
               cache[f][KeywordCallKey(n)] \in BuiltFor(f, n)
        /\ ReturnedFor(f, n) # {} => InvocationsFor(f, n) = 1

C14_OtherCacheKept ==
    \A t \in Threads :
        pc[t] # "idle" =>
            \A g \in Factories \ {frame[t].f} : cache'[g] = cache[g]

C14_Isolated == []C14_OwnEntries /\ [][C14_OtherCacheKept]_vars

\* Two factories over the same base and schemas, the same name called on
\* both: two invocations, two classes.
C14_Witness ==
    /\ factory["f1"].status = "returned"
    /\ factory["f2"].status = "returned"
    /\ factory["f1"].bound = factory["f2"].bound
    /\ Quiet
    /\ \E n \in Names :
          /\ KeywordCallKey(n) \in DOMAIN cache["f1"]
          /\ KeywordCallKey(n) \in DOMAIN cache["f2"]
          /\ cache["f1"][KeywordCallKey(n)] # cache["f2"][KeywordCallKey(n)]
          /\ InvocationsFor("f1", n) = 1
          /\ InvocationsFor("f2", n) = 1

(***************************************************************************)
(* C15: the cache is keyed by the name alone: with calls made one after    *)
(* the other, as factory(n) or factory(name=n), the cache holds one entry  *)
(* per name called, the collaborator builds a name at most once and all    *)
(* calls for it return the same class.                                     *)
(***************************************************************************)
C15_KeyedByName ==
    \A f \in Factories :
        /\ Cardinality(DOMAIN cache[f]) <= Cardinality(NamesCalled(f))
        /\ \A n \in Names :
              /\ InvocationsFor(f, n) > 1 => BuiltFor(f, n) = {}
              /\ Cardinality(ReturnedFor(f, n)) <= 1

(***************************************************************************)
(* C16: every collaborator invocation made by a factory receives the base  *)
(* that was passed to init_model_factory, the mapping under                *)
(* spec["components"]["schemas"] and the name of the call that made it;    *)
(* once a factory is returned no step changes its base or its schemas.     *)
(***************************************************************************)
\* The base init_model_factory received: its argument, or the `Base` that
\* init_yaml passed on.
PassedBase(f) ==
    IF factory[f].entry = "init_model_factory" THEN factory[f].argBase
    ELSE factory[f].retBase

C16_Received ==
    \A i \in DOMAIN invoked :
        LET e == invoked[i] IN
            /\ factory[e.f].status = "returned"
            /\ HasSchemas(factory[e.f].argSpec)
            /\ e.base = PassedBase(e.f)
            /\ e.schemas = factory[e.f].argSpec["components"]["schemas"]
            /\ started[e.f][e.name] > 0

C16_BindingKept ==
    /\ \A f \in Factories :
          factory[f].status = "returned" => factory'[f] = factory[f]
    /\ Len(invoked') > Len(invoked) =>
          \E t \in Threads :
              /\ pc[t] = "miss"
              /\ pc'[t] # "miss"
              /\ invoked' = Append(invoked, invoked'[Len(invoked')])
              /\ invoked'[Len(invoked')].f = frame[t].f
              /\ invoked'[Len(invoked')].name = frame[t].name

C16_BindingFixed == []C16_Received /\ [][C16_BindingKept]_vars

\* A factory made with a caller's base has invoked the collaborator for two names.
C16_Witness ==
    /\ factory["f1"].entry = "init_model_factory"
    /\ factory["f1"].argBase = UserBase
    /\ Len(invoked) >= 2
    /\ invoked[1].name # invoked[2].name
    /\ invoked[1].base = UserBase
    /\ invoked[2].base = UserBase
    /\ invoked[2].schemas = factory["f1"].argSpec["components"]["schemas"]

====
